---- MODULE Spec2Model ----
(***************************************************************************)
(* Attendance tracker: the attendance ledger, the correction-request       *)
(* workflow, the edit audit trail, the TBT image store and the report      *)
(* pages, as implemented by the Streamlit pages of admin.py and            *)
(* employee.py on top of the MongoDB collections employees, attendance,    *)
(* attendance_requests, edit_logs and attendance_images.                   *)
(*                                                                         *)
(* Every browser session runs its page script on its own; one script run   *)
(* is a sequence of database calls, and the calls of different sessions    *)
(* interleave.  Each database call is one atomic step of the model.        *)
(***************************************************************************)
EXTENDS Integers, Sequences, FiniteSets, TLC

\* ------------------------------------------------------------------------
\* Bounds of the model
\* ------------------------------------------------------------------------
MaxTime == 3        \* number of successful database writes in one behaviour
MaxReq == 2         \* number of correction requests ever inserted
MaxUpload == 3      \* number of files chosen in the uploader at once
MaxReportDate == 3  \* last calendar date of the ledgers the statistics are run on
MaxRollupDate == 2  \* last calendar date of the ledgers the rollup is run on

\* ------------------------------------------------------------------------
\* Fixed data
\* ------------------------------------------------------------------------
Admins == {"admin1", "admin2"}              \* admin sessions (username)
EmpSessions == {"emp_s1", "emp_s2"}         \* employee sessions
Sessions == Admins \cup EmpSessions
Dates == {1}                                \* calendar dates (day numbers)
Today == MaxReportDate                      \* datetime.now().date()
Tomorrow == Today + 1
AllDates == Dates \cup {Today, Tomorrow}     \* the dates a date input can hold
Status == {"present", "absent"}
Space == " "
Reasons == { <<>>, <<Space, Space>>, <<Space, "x", Space>> }

\* st.session_state.user_data['employee_id'] of an employee session:
\* both employee sessions are logins of the same employee.
SessionEmployee(s) == "EMP0001"

\* the employees of the database when the sessions start: one active
\* employee and one deactivated employee
SeedEmployees ==
    << [employee_id |-> "EMP0001", username |-> "user1", department |-> "Ops",
        is_active |-> TRUE],
       [employee_id |-> "EMP0002", username |-> "user2", department |-> "IT",
        is_active |-> FALSE] >>

\* ------------------------------------------------------------------------
\* datetime helpers
\* ------------------------------------------------------------------------
TicksPerDay == 2
MinTimeOfDay == 0
MaxTimeOfDay == TicksPerDay - 1
\* datetime.combine(date, time)
Combine(d, t) == d * TicksPerDay + t
\* {"$gte": date_start, "$lte": date_end}
InDay(dt, d) == dt >= Combine(d, MinTimeOfDay) /\ dt <= Combine(d, MaxTimeOfDay)

\* str.strip(): remove leading and trailing whitespace
RECURSIVE LStrip(_)
LStrip(str) ==
    IF str = <<>> THEN <<>>
    ELSE IF Head(str) = Space THEN LStrip(Tail(str)) ELSE str
RECURSIVE RStrip(_)
RStrip(str) ==
    IF str = <<>> THEN <<>>
    ELSE IF str[Len(str)] = Space THEN RStrip(SubSeq(str, 1, Len(str) - 1))
    ELSE str
Strip(str) == RStrip(LStrip(str))

VARIABLES
    employees,            \* db.employees, documents in insertion order
    attendance,           \* db.attendance, documents in insertion order
    attendance_requests,  \* db.attendance_requests
    edit_logs,            \* db.edit_logs
    now,                  \* datetime.now(), a logical clock
    submitted,            \* st.session_state['attendance_submitted_<date>']
    pc,                   \* position of each session's script run
    loc,                  \* local variables of each session's script run
    result,               \* the message the latest step showed (st.info,
                          \* st.warning, st.error, st.success), "none" when
                          \* it showed nothing
    attendance_images,    \* db.attendance_images
    overview_data,        \* st.session_state.overview_data of each employee session
    report,               \* the figures the latest report page displayed
    attendance_list_data, \* st.session_state.attendance_list_data and
                          \* attendance_list_params of each employee session
    tbt_delete,           \* the delete page of each admin session: the value of
                          \* the date input, st.session_state["confirm_bulk_delete"]
                          \* and the images with "confirm_individual_delete_<id>"
    date_inputs           \* the dates the users choose in the date inputs

vars == << employees, attendance, attendance_requests, edit_logs, now, submitted,
           pc, loc, result, attendance_images, overview_data, report,
           attendance_list_data, tbt_delete, date_inputs >>

\* the session state of the attendance list and of the image delete page
pageVars == << attendance_list_data, tbt_delete, date_inputs >>

\* the state of the image store and of the report pages
reportVars == << attendance_images, overview_data, report, pageVars >>

\* overview_data is None; nothing displayed yet
NoOverview == [cached |-> FALSE, monthly_records |-> <<>>]
NoReport == [page |-> "none"]
\* attendance_list_data and attendance_list_params are None
NoList == [params |-> << >>, records |-> << >>]
\* the delete page was never opened: the date input holds its default and
\* nothing is confirmed; confirmed_for records the date that was selected
\* when the confirmation was asked for (0: none asked for since the last
\* bulk delete)
NoDelete == [date |-> Today, confirm |-> FALSE, confirmed_for |-> 0,
             confirm_individual |-> {}]

\* the session state when the sessions start, with the dates the date
\* inputs are used with
PagesInit(dates) ==
    /\ attendance_list_data = [s \in EmpSessions |-> NoList]
    /\ tbt_delete = [s \in Admins |-> NoDelete]
    /\ date_inputs = dates

Idle == [date |-> 0, emp |-> "none", status |-> "none", reason |-> <<>>,
         exist |-> {}, todo |-> <<>>, cur |-> "none",
         req |-> 0, found |-> FALSE, count |-> 0,
         username |-> "none", department |-> "none"]

\* ------------------------------------------------------------------------
\* Document store
\* ------------------------------------------------------------------------
Indices(coll) == 1 .. Len(coll)

\* find({"date": {"$gte": date_start, "$lte": date_end}}) on db.attendance
AttendanceOnDate(d) == { i \in Indices(attendance) : InDay(attendance[i].date, d) }

\* the documents matching {"employee_id": e, "date": {"$gte":.., "$lte":..}}
MatchAttendance(coll, e, d) ==
    { i \in Indices(coll) : coll[i].employee_id = e /\ InDay(coll[i].date, d) }

Min(S) == CHOOSE x \in S : \A y \in S : x <= y

\* find_one: the first matching document, 0 when there is none
FindOneAttendance(coll, e, d) ==
    IF MatchAttendance(coll, e, d) = {} THEN 0 ELSE Min(MatchAttendance(coll, e, d))

\* the unique index (employee_id, date) of db.attendance
AttendanceIndexFree_NoIndex(coll, doc) == TRUE
AttendanceIndexFree(coll, doc) ==
    \A i \in Indices(coll) :
        ~(coll[i].employee_id = doc.employee_id /\ coll[i].date = doc.date)

\* update_one(filter, {"$set": fields}): the first matching document is changed
UpdateOneAttendance(coll, e, d, fields) ==
    LET i == FindOneAttendance(coll, e, d) IN
    IF i = 0 THEN coll
    ELSE [coll EXCEPT ![i] =
            [f \in DOMAIN coll[i] |->
                IF f \in DOMAIN fields THEN fields[f] ELSE coll[i][f]]]

\* A script run gets to the point where its next database call is a write
\* only while the bound on the writes leaves room for that write.
WriteAhead == now < MaxTime

\* ------------------------------------------------------------------------
\* Initial state: empty collections, every session between two script runs
\* ------------------------------------------------------------------------
Init ==
    /\ employees = SeedEmployees
    /\ attendance = <<>>
    /\ attendance_requests = <<>>
    /\ edit_logs = <<>>
    /\ now = 0
    /\ submitted = [s \in Admins |-> [d \in AllDates |-> FALSE]]
    /\ pc = [s \in Sessions |-> "idle"]
    /\ loc = [s \in Sessions |-> Idle]
    /\ result = "none"
    /\ attendance_images = <<>>
    /\ overview_data = [s \in EmpSessions |-> NoOverview]
    /\ report = NoReport
    /\ PagesInit(Dates)

\* ------------------------------------------------------------------------
\* admin.py mark_attendance
\* ------------------------------------------------------------------------
\* the employee identifiers in the order of their strings, "EMP" followed by
\* the zero-padded number
EmployeeIdOrder == << "EMP0001", "EMP0002" >>

\* the identifiers of the model, each with the characters that follow "EMP"
EmployeeIdChars ==
    { << "EMP0001", << 0, 0, 0, 1 >> >>, << "EMP0002", << 0, 0, 0, 2 >> >>,
      << "EMP0003", << 0, 0, 0, 3 >> >>, << "EMP0004", << 0, 0, 0, 4 >> >>,
      << "EMP0005", << 0, 0, 0, 5 >> >>, << "EMP0006", << 0, 0, 0, 6 >> >>,
      << "EMP0007", << 0, 0, 0, 7 >> >>, << "EMP0008", << 0, 0, 0, 8 >> >>,
      << "EMP9998", << 9, 9, 9, 8 >> >>, << "EMP9999", << 9, 9, 9, 9 >> >>,
      << "EMP10000", << 1, 0, 0, 0, 0 >> >>, << "EMP10001", << 1, 0, 0, 0, 1 >> >> }
\* employee_id.replace('EMP', '')
Digits(id) == (CHOOSE p \in EmployeeIdChars : p[1] = id)[2]
\* "EMP" followed by the characters
IdOf(digits) == (CHOOSE p \in EmployeeIdChars : p[2] = digits)[1]

\* int(...) of a string of digits
RECURSIVE ToInt(_)
ToInt(digits) ==
    IF digits = <<>> THEN 0
    ELSE 10 * ToInt(SubSeq(digits, 1, Len(digits) - 1)) + digits[Len(digits)]
EmployeeNumber(id) == ToInt(Digits(id))

\* f"{n:04d}": the decimal digits of n, padded with zeros to the width
IdWidth == 4
RECURSIVE ToDigits(_)
ToDigits(n) == IF n < 10 THEN << n >> ELSE ToDigits(n \div 10) \o << n % 10 >>
RECURSIVE ZeroPad(_, _)
ZeroPad(digits, width) ==
    IF Len(digits) >= width THEN digits ELSE ZeroPad(<< 0 >> \o digits, width)
FormatId(n) == IdOf(ZeroPad(ToDigits(n), IdWidth))

\* the order of strings: the first differing character decides, and a
\* proper prefix comes first
RECURSIVE StringLess(_, _)
StringLess(a, b) ==
    IF b = <<>> THEN FALSE
    ELSE IF a = <<>> THEN TRUE
    ELSE IF Head(a) # Head(b) THEN Head(a) < Head(b)
    ELSE StringLess(Tail(a), Tail(b))
\* the order .sort("employee_id", ...) puts two identifiers in
IdLess(x, y) == StringLess(Digits(x), Digits(y))

\* .sort("employee_id", 1): insertion of a document into a sorted list
RECURSIVE InsertById(_, _)
InsertById(emp, sorted) ==
    IF sorted = <<>> THEN << emp >>
    ELSE IF ~IdLess(Head(sorted).employee_id, emp.employee_id)
    THEN << emp >> \o sorted
    ELSE << Head(sorted) >> \o InsertById(emp, Tail(sorted))
RECURSIVE SortByEmployeeId(_)
SortByEmployeeId(docs) ==
    IF docs = <<>> THEN <<>>
    ELSE InsertById(Head(docs), SortByEmployeeId(Tail(docs)))

\* db.employees.find({"is_active": True}).sort("employee_id", 1)
all_employees == SortByEmployeeId(SelectSeq(employees, LAMBDA emp : emp.is_active))

\* marked_present_employee_ids
MarkedPresentIds(d) ==
    { attendance[i].employee_id :
        i \in { j \in AttendanceOnDate(d) : attendance[j].status = "present" } }

\* existing_dict.keys()
ExistingIds(d) == { attendance[i].employee_id : i \in AttendanceOnDate(d) }

\* employees: the employees offered for marking on date d
OfferedEmployees(d) ==
    IF AttendanceOnDate(d) # {}
    THEN SelectSeq(all_employees,
                   LAMBDA emp : emp.employee_id \notin MarkedPresentIds(d))
    ELSE all_employees

SeqRange(q) == { q[i] : i \in 1 .. Len(q) }

\* filtered_employees for the chosen department filter
FilteredEmployees(offered, filter_dept) ==
    IF filter_dept # "All"
    THEN SelectSeq(offered, LAMBDA emp : emp.department = filter_dept)
    ELSE offered

\* the branch of the save loop: an employee of existing_dict is updated,
\* any other is inserted
SaveUpdates_InsertOnly(emp_id, existing_dict) == FALSE
SaveUpdates(emp_id, existing_dict) == emp_id \in existing_dict

\* The script run up to the save loop: the date is chosen, the existing
\* records of the date are read, the form is filled in and submitted.
\* attendance_date > datetime.now().date()
FutureDate_Allowed(attendance_date) == FALSE
FutureDate(attendance_date) == attendance_date > Today

MarkAttendanceRead(s) ==
    /\ s \in Admins
    /\ pc[s] = "idle"
    /\ \E d \in date_inputs :
        IF FutureDate(d)
        THEN /\ result' = "future_date"
             /\ UNCHANGED << pc, loc >>
        ELSE
        /\ ~submitted[s][d]
        /\ LET offered == OfferedEmployees(d) IN
           IF offered = <<>>
           THEN /\ result' = IF AttendanceOnDate(d) = {} THEN "no_employees"
                                ELSE "all_present"
                /\ UNCHANGED << pc, loc >>
           ELSE \E filter_dept \in {"All"} \cup
                        { emp.department : emp \in SeqRange(offered) } :
                LET filtered == FilteredEmployees(offered, filter_dept) IN
                \E attendance_data \in
                        [ { emp.employee_id : emp \in SeqRange(filtered) } -> Status ] :
                    /\ loc' = [loc EXCEPT ![s] =
                            [Idle EXCEPT
                                !.date = d,
                                !.exist = ExistingIds(d),
                                !.todo = [ i \in 1 .. Len(filtered) |->
                                    [emp |-> filtered[i].employee_id,
                                     status |-> attendance_data[filtered[i].employee_id]] ]]]
                    /\ pc' = [pc EXCEPT ![s] = "mark_save"]
                    /\ result' = "none"
                    /\ WriteAhead
    /\ UNCHANGED << reportVars, employees, attendance, attendance_requests, edit_logs, now, submitted >>

\* record_data of one iteration of the save loop
MarkRecordData(s, item, d) ==
    [employee_id |-> item.emp,
     date |-> Combine(d, MinTimeOfDay),
     status |-> item.status,
     marked_by |-> s,
     created_at |-> now + 1]

NewAttendanceDoc(data, note) ==
    [employee_id |-> data.employee_id, date |-> data.date,
     status |-> data.status, marked_by |-> data.marked_by,
     created_at |-> data.created_at, updated_at |-> 0,
     updated_by |-> "none", note |-> note]

\* for emp_id, status in attendance_data.items(): the items left after an
\* iteration; the except clause reports the item and the loop goes on
RemainingAfter_StopOnFailure(todo, failed) == IF failed THEN <<>> ELSE Tail(todo)
RemainingAfter(todo, failed) == Tail(todo)

\* One iteration of the save loop; after the last one the submitted flag
\* of the date is set and the run ends.
MarkAttendanceSave(s) ==
    /\ s \in Admins
    /\ pc[s] = "mark_save"
    /\ LET item == Head(loc[s].todo)
           d == loc[s].date
           record_data == MarkRecordData(s, item, d)
           failed ==
               /\ ~SaveUpdates(item.emp, loc[s].exist)
               /\ ~AttendanceIndexFree(attendance, record_data)
           rest == RemainingAfter(loc[s].todo, failed)
           last == rest = <<>>
       IN
       /\ failed \/ now < MaxTime
       /\ attendance' =
            IF SaveUpdates(item.emp, loc[s].exist)
            THEN UpdateOneAttendance(attendance, item.emp, d,
                    [employee_id |-> record_data.employee_id,
                     date |-> record_data.date,
                     status |-> record_data.status,
                     marked_by |-> record_data.marked_by,
                     created_at |-> record_data.created_at,
                     updated_at |-> now + 1])
            ELSE IF AttendanceIndexFree(attendance, record_data)
            THEN Append(attendance, NewAttendanceDoc(record_data, "none"))
            ELSE attendance        \* DuplicateKeyError, reported for the item
       /\ now' = IF failed THEN now ELSE now + 1
       /\ IF last
          THEN /\ pc' = [pc EXCEPT ![s] = "idle"]
               /\ loc' = [loc EXCEPT ![s] = Idle]
               /\ submitted' = [submitted EXCEPT ![s][d] = TRUE]
          ELSE /\ loc' = [loc EXCEPT ![s].todo = rest]
               /\ UNCHANGED << pc, submitted >>
       /\ result' = IF failed THEN "save_error" ELSE IF last THEN "saved" ELSE "none"
    /\ UNCHANGED << reportVars, employees, attendance_requests, edit_logs >>

\* The "Edit Attendance" button of the summary shown after a save
MarkAttendanceReset(s) ==
    /\ s \in Admins
    /\ pc[s] = "idle"
    /\ \E d \in date_inputs :
        /\ submitted[s][d]
        /\ submitted' = [submitted EXCEPT ![s][d] = FALSE]
    /\ result' = "none"
    /\ UNCHANGED << reportVars, employees, attendance, attendance_requests, edit_logs, now, pc, loc >>

\* ------------------------------------------------------------------------
\* admin.py edit_attendance
\* ------------------------------------------------------------------------
\* the employees of the select box
ActiveEmployeeIds ==
    { emp.employee_id : emp \in { e \in SeqRange(employees) : e.is_active } }

\* not current_record
RecordMissing_Ignored(i) == FALSE
RecordMissing(i) == i = 0

\* not edit_reason.strip()
ReasonMissing_NoStrip(edit_reason) == edit_reason = <<>>
ReasonMissing(edit_reason) == Strip(edit_reason) = <<>>

\* new_status == current_record['status']
NoOpEdit_Ignored(new_status, current_status) == FALSE
NoOpEdit(new_status, current_status) == new_status = current_status

\* The script run of a submitted edit form up to the update: the record is
\* read, then the reason and the new status are checked.
EditAttendanceRead(s) ==
    /\ s \in Admins
    /\ pc[s] = "idle"
    /\ \E employee_id \in ActiveEmployeeIds, edit_date \in date_inputs :
        LET i == FindOneAttendance(attendance, employee_id, edit_date)
            current_status == IF i = 0 THEN "none" ELSE attendance[i].status
        IN
        IF RecordMissing(i)
        THEN \* no record: the message is shown and the form is not rendered
             /\ result' = "not_found"
             /\ UNCHANGED << pc, loc >>
        ELSE \E edit_reason \in Reasons :
            IF ReasonMissing(edit_reason)
            THEN /\ result' = "reason_required"
                 /\ UNCHANGED << pc, loc >>
            ELSE \E new_status \in Status :
                IF NoOpEdit(new_status, current_status)
                THEN /\ result' = "no_change"
                     /\ UNCHANGED << pc, loc >>
                ELSE /\ WriteAhead
                     /\ pc' = [pc EXCEPT ![s] = "edit_update"]
                     /\ loc' = [loc EXCEPT ![s] =
                            [Idle EXCEPT !.emp = employee_id, !.date = edit_date,
                                         !.status = new_status,
                                         !.reason = edit_reason,
                                         !.cur = current_status]]
                     /\ result' = "none"
    /\ UNCHANGED << reportVars, employees, attendance, attendance_requests, edit_logs, now, submitted >>

\* db.attendance.update_one of the edit
EditAttendanceUpdate(s) ==
    /\ s \in Admins
    /\ pc[s] = "edit_update"
    /\ now < MaxTime
    /\ attendance' = UpdateOneAttendance(attendance, loc[s].emp, loc[s].date,
            [status |-> loc[s].status, updated_at |-> now + 1, updated_by |-> s])
    /\ now' = now + 1
    /\ pc' = [pc EXCEPT ![s] = "edit_log"]
    /\ result' = "none"
    /\ UNCHANGED << reportVars, employees, attendance_requests, edit_logs, submitted, loc >>

\* db.edit_logs.insert_one(edit_log): the entry is added at the end
EditLogInsert_Upsert(logs, entry) ==
    IF \E k \in Indices(logs) :
          logs[k].employee_id = entry.employee_id /\ logs[k].date = entry.date
    THEN [ k \in Indices(logs) |->
            IF logs[k].employee_id = entry.employee_id /\ logs[k].date = entry.date
            THEN entry ELSE logs[k] ]
    ELSE Append(logs, entry)
EditLogInsert(logs, entry) == Append(logs, entry)

\* db.edit_logs.insert_one of the edit
EditAttendanceLog(s) ==
    /\ s \in Admins
    /\ pc[s] = "edit_log"
    /\ edit_logs' = EditLogInsert(edit_logs,
            [employee_id |-> loc[s].emp,
             date |-> Combine(loc[s].date, MinTimeOfDay),
             old_status |-> loc[s].cur,
             new_status |-> loc[s].status,
             reason |-> loc[s].reason,
             edited_by |-> s,
             edited_at |-> now])
    /\ pc' = [pc EXCEPT ![s] = "idle"]
    /\ loc' = [loc EXCEPT ![s] = Idle]
    /\ result' = "updated"
    /\ UNCHANGED << reportVars, employees, attendance, attendance_requests, now, submitted >>

\* ------------------------------------------------------------------------
\* admin.py attendance_requests and handle_request_action
\* ------------------------------------------------------------------------
\* datetime.date()
DateOf(dt) == dt \div TicksPerDay

\* db.attendance_requests.find({"status": "pending"})
PendingRequests ==
    { r \in Indices(attendance_requests) : attendance_requests[r].status = "pending" }

\* if action == "approved": the approval writes the ledger
TouchesLedger_Always(action) == TRUE
TouchesLedger(action) == action = "approved"

\* The pending requests are listed and the Approve or Reject button of one
\* of them is clicked.
ResolveRead(s) ==
    /\ s \in Admins
    /\ pc[s] = "idle"
    /\ WriteAhead
    /\ \E r \in PendingRequests, action \in {"approved", "rejected"} :
        /\ pc' = [pc EXCEPT ![s] = "resolve_update"]
        /\ loc' = [loc EXCEPT ![s] =
                [Idle EXCEPT !.req = r,
                             !.emp = attendance_requests[r].employee_id,
                             !.date = DateOf(attendance_requests[r].date),
                             !.status = action]]
    /\ result' = "none"
    /\ UNCHANGED << reportVars, employees, attendance, attendance_requests, edit_logs, now, submitted >>

\* the "$set" of the request's update: the status with the resolver and the
\* time of the resolution
ResolveFields_NoResolver(action, s, t) ==
    [status |-> action, resolved_by |-> "none", updated_at |-> t]
ResolveFields(action, s, t) ==
    [status |-> action, resolved_by |-> s, updated_at |-> t]

\* db.attendance_requests.update_one({"_id": request['_id']}, ...)
ResolveUpdate(s) ==
    /\ s \in Admins
    /\ pc[s] = "resolve_update"
    /\ now < MaxTime
    /\ LET fields == ResolveFields(loc[s].status, s, now + 1)
           request == attendance_requests[loc[s].req]
       IN attendance_requests' = [attendance_requests EXCEPT ![loc[s].req] =
            [f \in DOMAIN request |->
                IF f \in DOMAIN fields THEN fields[f] ELSE request[f]]]
    /\ now' = now + 1
    /\ IF TouchesLedger(loc[s].status)
       THEN /\ pc' = [pc EXCEPT ![s] = "resolve_find"]
            /\ result' = "none"
            /\ UNCHANGED loc
       ELSE /\ pc' = [pc EXCEPT ![s] = "idle"]
            /\ loc' = [loc EXCEPT ![s] = Idle]
            /\ result' = "resolved"
    /\ UNCHANGED << reportVars, employees, attendance, edit_logs, submitted >>

\* existing_attendance = db.attendance.find_one(...)
ResolveFind(s) ==
    /\ s \in Admins
    /\ pc[s] = "resolve_find"
    /\ loc' = [loc EXCEPT ![s].found =
            FindOneAttendance(attendance, loc[s].emp, loc[s].date) # 0]
    /\ pc' = [pc EXCEPT ![s] = "resolve_write"]
    /\ result' = "none"
    /\ UNCHANGED << reportVars, employees, attendance, attendance_requests, edit_logs, now, submitted >>

\* the "$set" of the approval's update of an existing record
ApprovalUpdate_Overwrite(s, t) ==
    [status |-> "present", marked_by |-> s, created_at |-> t,
     updated_at |-> t, updated_by |-> s]
ApprovalUpdate(s, t) ==
    [status |-> "present", updated_at |-> t, updated_by |-> s]

\* the update or the insert of the approval
ResolveWrite(s) ==
    /\ s \in Admins
    /\ pc[s] = "resolve_write"
    /\ LET attendance_data ==
            [employee_id |-> loc[s].emp,
             date |-> Combine(loc[s].date, MinTimeOfDay),
             status |-> "present",
             marked_by |-> s,
             created_at |-> now + 1]
       IN
       IF loc[s].found
       THEN /\ now < MaxTime
            /\ now' = now + 1
            /\ attendance' = UpdateOneAttendance(attendance, loc[s].emp, loc[s].date,
                    ApprovalUpdate(s, now + 1))
            /\ result' = "resolved"
       ELSE IF AttendanceIndexFree(attendance, attendance_data)
       THEN /\ now < MaxTime
            /\ now' = now + 1
            /\ attendance' = Append(attendance,
                    NewAttendanceDoc(attendance_data, "Approved from employee request"))
            /\ result' = "resolved"
       ELSE /\ attendance' = attendance      \* DuplicateKeyError
            /\ now' = now
            /\ result' = "resolve_error"
    /\ pc' = [pc EXCEPT ![s] = "idle"]
    /\ loc' = [loc EXCEPT ![s] = Idle]
    /\ UNCHANGED << reportVars, employees, attendance_requests, edit_logs, submitted >>

\* ------------------------------------------------------------------------
\* employee.py submit_new_request
\* ------------------------------------------------------------------------
\* the requests matching employee, day and status in ["pending", "approved"]
ActiveRequests(reqs, e, d) ==
    { r \in Indices(reqs) :
        /\ reqs[r].employee_id = e
        /\ InDay(reqs[r].date, d)
        /\ reqs[r].status \in {"pending", "approved"} }

\* st.date_input(..., max_value=datetime.now().date() - timedelta(days=1)):
\* the dates the request form accepts
RequestDates == { d \in date_inputs : d <= Today - 1 }

\* current_record = db.attendance.find_one(...)
SubmitReadRecord(s) ==
    /\ s \in EmpSessions
    /\ pc[s] = "idle"
    /\ Len(attendance_requests) < MaxReq
    /\ \E request_date \in RequestDates, reason \in Reasons :
        LET i == FindOneAttendance(attendance, SessionEmployee(s), request_date) IN
        /\ loc' = [loc EXCEPT ![s] =
                [Idle EXCEPT !.emp = SessionEmployee(s), !.date = request_date,
                             !.reason = reason,
                             !.cur = IF i = 0 THEN "none" ELSE attendance[i].status]]
        /\ pc' = [pc EXCEPT ![s] = "submit_check"]
    /\ result' = "none"
    /\ UNCHANGED << reportVars, employees, attendance, attendance_requests, edit_logs, now, submitted >>

\* not reason.strip()
JustificationMissing_NoStrip(reason) == reason = <<>>
JustificationMissing(reason) == Strip(reason) = <<>>

\* existing_request = db.attendance_requests.find_one(...), then the checks
\* of the submitted form
SubmitReadRequest(s) ==
    /\ s \in EmpSessions
    /\ pc[s] = "submit_check"
    /\ LET existing_request ==
            ActiveRequests(attendance_requests, loc[s].emp, loc[s].date) # {}
       IN
       IF JustificationMissing(loc[s].reason)
       THEN /\ result' = "justification_required"
            /\ pc' = [pc EXCEPT ![s] = "idle"]
            /\ loc' = [loc EXCEPT ![s] = Idle]
       ELSE IF existing_request
       THEN /\ result' = "request_exists"
            /\ pc' = [pc EXCEPT ![s] = "idle"]
            /\ loc' = [loc EXCEPT ![s] = Idle]
       ELSE IF loc[s].cur = "present"
       THEN /\ result' = "already_present"
            /\ pc' = [pc EXCEPT ![s] = "idle"]
            /\ loc' = [loc EXCEPT ![s] = Idle]
       ELSE /\ WriteAhead
            /\ pc' = [pc EXCEPT ![s] = "submit_insert"]
            /\ result' = "none"
            /\ UNCHANGED loc
    /\ UNCHANGED << reportVars, employees, attendance, attendance_requests, edit_logs, now, submitted >>

\* db.attendance_requests.insert_one(request_data)
SubmitInsert(s) ==
    /\ s \in EmpSessions
    /\ pc[s] = "submit_insert"
    /\ now < MaxTime
    /\ Len(attendance_requests) < MaxReq
    /\ attendance_requests' = Append(attendance_requests,
            [employee_id |-> loc[s].emp,
             date |-> Combine(loc[s].date, MinTimeOfDay),
             message |-> Strip(loc[s].reason),
             status |-> "pending",
             created_at |-> now + 1,
             resolved_by |-> "none",
             updated_at |-> 0])
    /\ now' = now + 1
    /\ pc' = [pc EXCEPT ![s] = "idle"]
    /\ loc' = [loc EXCEPT ![s] = Idle]
    /\ result' = "submitted"
    /\ UNCHANGED << reportVars, employees, attendance, edit_logs, submitted >>

\* ------------------------------------------------------------------------
\* admin.py upload_tbt_images
\* ------------------------------------------------------------------------
\* the files an admin can choose: Image.open reads the first and raises on
\* the second
TbtFiles == { [name |-> "a.png", readable |-> TRUE],
              [name |-> "b.jpg", readable |-> FALSE] }

\* the uploader accepts any number of files (accept_multiple_files=True)
UploadedFiles == UNION { [1 .. n -> TbtFiles] : n \in 1 .. MaxUpload }

MaxImagesPerDay == 2

\* existing_images: find({"date": {"$gte": date_start, "$lte": date_end}})
ImagesOnDate(d) ==
    { i \in Indices(attendance_images) : InDay(attendance_images[i].date, d) }

\* The script run of the "Upload Images" click up to the loop: the images of
\* the date are read and the number of chosen files is checked against the
\* remaining slots.
UploadTbtRead(s) ==
    /\ s \in Admins
    /\ pc[s] = "idle"
    /\ \E upload_date \in date_inputs :
        LET existing_images == ImagesOnDate(upload_date)
            remaining_slots == MaxImagesPerDay - Cardinality(existing_images)
        IN
        IF Cardinality(existing_images) >= MaxImagesPerDay
        THEN /\ result' = "images_full"
             /\ UNCHANGED << pc, loc >>
        ELSE \E uploaded_files \in UploadedFiles :
            IF Len(uploaded_files) > remaining_slots
            THEN /\ result' = "too_many_files"
                 /\ UNCHANGED << pc, loc >>
            ELSE /\ pc' = [pc EXCEPT ![s] = "tbt_insert"]
                 /\ loc' = [loc EXCEPT ![s] =
                        [Idle EXCEPT !.date = upload_date, !.todo = uploaded_files]]
                 /\ result' = "none"
    /\ UNCHANGED << employees, attendance, attendance_requests, edit_logs, now,
                    submitted, attendance_images, overview_data, report, pageVars >>

\* One iteration of the upload loop: the file is converted and inserted, or
\* its error is shown; after the last file the outcome of the batch is shown.
UploadTbtInsert(s) ==
    /\ s \in Admins
    /\ pc[s] = "tbt_insert"
    /\ LET uploaded_file == Head(loc[s].todo)
           last == Len(loc[s].todo) = 1
           uploaded_count == loc[s].count + (IF uploaded_file.readable THEN 1 ELSE 0)
       IN
       /\ IF uploaded_file.readable
          THEN /\ now < MaxTime
               /\ attendance_images' = Append(attendance_images,
                      [date |-> Combine(loc[s].date, MinTimeOfDay),
                       filename |-> uploaded_file.name,
                       uploaded_by |-> s,
                       uploaded_at |-> now + 1])
               /\ now' = now + 1
          ELSE UNCHANGED << attendance_images, now >>
       /\ IF last
          THEN /\ pc' = [pc EXCEPT ![s] = "idle"]
               /\ loc' = [loc EXCEPT ![s] = Idle]
               /\ result' = IF uploaded_count > 0 THEN "uploaded" ELSE "none_uploaded"
          ELSE /\ loc' = [loc EXCEPT ![s].todo = Tail(@), ![s].count = uploaded_count]
               /\ result' = IF uploaded_file.readable THEN "file_uploaded"
                                ELSE "file_failed"
               /\ UNCHANGED pc
    /\ UNCHANGED << employees, attendance, attendance_requests, edit_logs,
                    submitted, overview_data, report, pageVars >>

\* ------------------------------------------------------------------------
\* admin.py delete_tbt_images
\* ------------------------------------------------------------------------
\* the admin picks another date in the date input of the delete page
SelectDeleteDate(s) ==
    /\ s \in Admins
    /\ pc[s] = "idle"
    /\ \E delete_date \in date_inputs \ {tbt_delete[s].date} :
        /\ tbt_delete' = [tbt_delete EXCEPT ![s].date = delete_date]
        /\ result' = IF ImagesOnDate(delete_date) = {} THEN "no_images" ELSE "none"
    /\ UNCHANGED << employees, attendance, attendance_requests, edit_logs, now,
                    submitted, pc, loc, attendance_images, overview_data, report,
                    attendance_list_data, date_inputs >>

\* A click on "Delete All Images for This Date", shown when the date has
\* more than one image: the first click asks for a confirmation, a click
\* with the confirmation flag set goes on to the delete.
BulkDeleteClick(s) ==
    /\ s \in Admins
    /\ pc[s] = "idle"
    /\ LET delete_date == tbt_delete[s].date IN
       /\ Cardinality(ImagesOnDate(delete_date)) > 1
       /\ IF tbt_delete[s].confirm
          THEN /\ pc' = [pc EXCEPT ![s] = "tbt_delete_many"]
               /\ loc' = [loc EXCEPT ![s] = [Idle EXCEPT !.date = delete_date]]
               /\ result' = "none"
               /\ UNCHANGED tbt_delete
          ELSE /\ tbt_delete' = [tbt_delete EXCEPT ![s].confirm = TRUE,
                                                   ![s].confirmed_for = delete_date]
               /\ result' = "confirm_bulk_delete"
               /\ UNCHANGED << pc, loc >>
    /\ UNCHANGED << employees, attendance, attendance_requests, edit_logs, now,
                    submitted, attendance_images, overview_data, report,
                    attendance_list_data, date_inputs >>

\* db.attendance_images.delete_many({"date": {"$gte": .., "$lte": ..}})
BulkDeleteMany(s) ==
    /\ s \in Admins
    /\ pc[s] = "tbt_delete_many"
    /\ attendance_images' =
          SelectSeq(attendance_images, LAMBDA img : ~InDay(img.date, loc[s].date))
    /\ tbt_delete' = [tbt_delete EXCEPT ![s].confirmed_for = 0]
    /\ pc' = [pc EXCEPT ![s] = "idle"]
    /\ loc' = [loc EXCEPT ![s] = Idle]
    /\ result' = "bulk_deleted"
    /\ UNCHANGED << employees, attendance, attendance_requests, edit_logs, now,
                    submitted, overview_data, report, attendance_list_data,
                    date_inputs >>

\* A click on the "Delete" button of one image of the date
IndividualDeleteClick(s) ==
    /\ s \in Admins
    /\ pc[s] = "idle"
    /\ \E i \in ImagesOnDate(tbt_delete[s].date) :
        LET img_record == attendance_images[i] IN
        IF img_record \in tbt_delete[s].confirm_individual
        THEN /\ pc' = [pc EXCEPT ![s] = "tbt_delete_one"]
             /\ loc' = [loc EXCEPT ![s] = [Idle EXCEPT !.todo = << img_record >>]]
             /\ result' = "none"
             /\ UNCHANGED tbt_delete
        ELSE /\ tbt_delete' = [tbt_delete EXCEPT ![s].confirm_individual =
                                   @ \cup {img_record}]
             /\ result' = "confirm_delete"
             /\ UNCHANGED << pc, loc >>
    /\ UNCHANGED << employees, attendance, attendance_requests, edit_logs, now,
                    submitted, attendance_images, overview_data, report,
                    attendance_list_data, date_inputs >>

\* db.attendance_images.delete_one({"_id": img_record['_id']})
IndividualDeleteOne(s) ==
    /\ s \in Admins
    /\ pc[s] = "tbt_delete_one"
    /\ attendance_images' =
          SelectSeq(attendance_images, LAMBDA img : img # Head(loc[s].todo))
    /\ pc' = [pc EXCEPT ![s] = "idle"]
    /\ loc' = [loc EXCEPT ![s] = Idle]
    /\ result' = "image_deleted"
    /\ UNCHANGED << employees, attendance, attendance_requests, edit_logs, now,
                    submitted, overview_data, report, pageVars >>

\* ------------------------------------------------------------------------
\* utils.py calculate_attendance_stats and the pages that display figures
\* ------------------------------------------------------------------------
\* round(numerator / denominator * 100, 2), as a number of hundredths; a tie
\* goes to the even neighbour
RoundedRate(numerator, denominator) ==
    LET n == numerator * 10000
        q == n \div denominator
        r == n % denominator
    IN IF 2 * r < denominator THEN q
       ELSE IF 2 * r > denominator THEN q + 1
       ELSE IF q % 2 = 0 THEN q ELSE q + 1

\* sum(1 for record in attendance_data if record['status'] == 'present')
RECURSIVE PresentDays(_)
PresentDays(attendance_data) ==
    IF attendance_data = <<>> THEN 0
    ELSE (IF Head(attendance_data).status = "present" THEN 1 ELSE 0)
         + PresentDays(Tail(attendance_data))

\* (present_days / total_days * 100) if total_days > 0 else 0, rounded
AttendancePercentage_Inverted(present_days, total_days) ==
    IF present_days > 0 THEN RoundedRate(total_days, present_days) ELSE 0
AttendancePercentage(present_days, total_days) ==
    IF total_days > 0 THEN RoundedRate(present_days, total_days) ELSE 0

calculate_attendance_stats(attendance_data) ==
    IF attendance_data = <<>>
    THEN [total_days |-> 0, present_days |-> 0, absent_days |-> 0,
          attendance_percentage |-> 0]
    ELSE LET total_days == Len(attendance_data)
             present_days == PresentDays(attendance_data)
         IN [total_days |-> total_days,
             present_days |-> present_days,
             absent_days |-> total_days - present_days,
             attendance_percentage |-> AttendancePercentage(present_days, total_days)]

ReportDates == 1 .. MaxReportDate
RollupDates == 1 .. MaxRollupDate
Departments == {"Ops", "IT"}

\* find({"employee_id": e, "date": {"$gte": start, "$lte": end}}) and
\* find({"date": {"$gte": start, "$lte": end}}) on db.attendance
InRange(dt, start_date, end_date) ==
    dt >= Combine(start_date, MinTimeOfDay) /\ dt <= Combine(end_date, MaxTimeOfDay)
RecordsInRange(start_date, end_date) ==
    SelectSeq(attendance, LAMBDA record : InRange(record.date, start_date, end_date))
EmployeeRecordsInRange(employee_id, start_date, end_date) ==
    SelectSeq(attendance, LAMBDA record :
        record.employee_id = employee_id /\ InRange(record.date, start_date, end_date))

\* admin.py show_employee_attendance for an employee of the select box
ShowEmployeeAttendance(s) ==
    /\ s \in Admins
    /\ pc[s] = "idle"
    /\ \E employee_id \in ActiveEmployeeIds, start_date \in ReportDates,
          end_date \in ReportDates :
        LET attendance_records ==
                EmployeeRecordsInRange(employee_id, start_date, end_date)
        IN
        IF attendance_records # <<>>
        THEN /\ report' = [page |-> "employee", employee_id |-> employee_id,
                           start_date |-> start_date, end_date |-> end_date,
                           stats |-> calculate_attendance_stats(attendance_records)]
             /\ result' = "none"
        ELSE /\ report' = NoReport
             /\ result' = "no_records"
    /\ UNCHANGED << employees, attendance, attendance_requests, edit_logs, now,
                    submitted, pc, loc, attendance_images, overview_data, pageVars >>

\* employee.py employee_overview: the records of the month are read when
\* nothing is cached or the cached data is older than 5 minutes
EmployeeOverview(s) ==
    /\ s \in EmpSessions
    /\ pc[s] = "idle"
    /\ \E expired \in BOOLEAN :
        LET should_refresh == ~overview_data[s].cached \/ expired
            data == IF should_refresh
                    THEN [cached |-> TRUE,
                          monthly_records |->
                              EmployeeRecordsInRange(SessionEmployee(s), 1, Today)]
                    ELSE overview_data[s]
        IN
        /\ overview_data' = [overview_data EXCEPT ![s] = data]
        /\ report' = [page |-> "overview",
                      stats |-> calculate_attendance_stats(data.monthly_records)]
    /\ result' = "none"
    /\ UNCHANGED << employees, attendance, attendance_requests, edit_logs, now,
                    submitted, pc, loc, attendance_images, pageVars >>

\* get_date_range_options(): "Today" and "This Month"
ListRanges == { << Today, Today >>, << 1, Today >> }

\* employee.py show_attendance_list: the records are read only when the
\* parameters differ from those of the cached data
ShowAttendanceList(s) ==
    /\ s \in EmpSessions
    /\ pc[s] = "idle"
    /\ \E range \in ListRanges :
        LET employee_id == SessionEmployee(s)
            current_params == << employee_id, range[1], range[2] >>
            attendance_records ==
                IF attendance_list_data[s].params # current_params
                THEN EmployeeRecordsInRange(employee_id, range[1], range[2])
                ELSE attendance_list_data[s].records
        IN
        /\ attendance_list_data' = [attendance_list_data EXCEPT ![s] =
                [params |-> current_params, records |-> attendance_records]]
        /\ IF attendance_records # <<>>
           THEN /\ report' = [page |-> "attendance_list",
                              start_date |-> range[1], end_date |-> range[2],
                              stats |-> calculate_attendance_stats(attendance_records)]
                /\ result' = "none"
           ELSE /\ report' = [page |-> "attendance_list_empty",
                              start_date |-> range[1], end_date |-> range[2]]
                /\ result' = "no_records"
    /\ UNCHANGED << employees, attendance, attendance_requests, edit_logs, now,
                    submitted, pc, loc, attendance_images, overview_data,
                    tbt_delete, date_inputs >>

\* ------------------------------------------------------------------------
\* admin.py department_analytics and edit_employee
\* ------------------------------------------------------------------------
\* employees.get(record['employee_id']): the index of the employee, 0 for None
EmployeeOf(employee_id) ==
    IF \E i \in Indices(employees) : employees[i].employee_id = employee_id
    THEN CHOOSE i \in Indices(employees) : employees[i].employee_id = employee_id
    ELSE 0

\* employee.get('department', 'Unknown')
DepartmentOf(employee) ==
    IF "department" \in DOMAIN employee THEN employee.department ELSE "Unknown"

\* the loop that fills dept_stats
RECURSIVE DeptStats(_, _)
DeptStats(attendance_records, dept_stats) ==
    IF attendance_records = <<>> THEN dept_stats
    ELSE LET record == Head(attendance_records)
             employee == EmployeeOf(record.employee_id)
         IN
         IF employee = 0
         THEN DeptStats(Tail(attendance_records), dept_stats)
         ELSE LET dept == DepartmentOf(employees[employee])
                  old == IF dept \in DOMAIN dept_stats THEN dept_stats[dept]
                         ELSE [total |-> 0, present |-> 0, absent |-> 0]
                  new == [total |-> old.total + 1,
                          present |-> old.present
                              + (IF record.status = "present" THEN 1 ELSE 0),
                          absent |-> old.absent
                              + (IF record.status = "present" THEN 0 ELSE 1)]
              IN DeptStats(Tail(attendance_records),
                    [d \in DOMAIN dept_stats \cup {dept} |->
                        IF d = dept THEN new ELSE dept_stats[d]])

\* dept_data: one row per department of dept_stats
DeptData(dept_stats) ==
    [dept \in DOMAIN dept_stats |->
        [total |-> dept_stats[dept].total,
         present |-> dept_stats[dept].present,
         absent |-> dept_stats[dept].absent,
         rate |-> IF dept_stats[dept].total > 0
                  THEN RoundedRate(dept_stats[dept].present, dept_stats[dept].total)
                  ELSE 0]]

DepartmentAnalytics(s) ==
    /\ s \in Admins
    /\ pc[s] = "idle"
    /\ \E start_date \in RollupDates, end_date \in RollupDates :
        IF start_date > end_date
        THEN /\ result' = "start_after_end"
             /\ report' = NoReport
        ELSE LET attendance_records == RecordsInRange(start_date, end_date) IN
             IF attendance_records = <<>>
             THEN /\ result' = "no_data"
                  /\ report' = NoReport
             ELSE /\ result' = "none"
                  /\ report' = [page |-> "department",
                                start_date |-> start_date, end_date |-> end_date,
                                rows |-> DeptData(DeptStats(attendance_records,
                                                           [d \in {} |-> 0]))]
    /\ UNCHANGED << employees, attendance, attendance_requests, edit_logs, now,
                    submitted, pc, loc, attendance_images, overview_data, pageVars >>

\* db.employees.update_one({"employee_id": employee_id}, {"$set": update_data})
UpdateOneEmployee_DropInactive(coll, i, update_data) ==
    IF update_data.is_active
    THEN [coll EXCEPT ![i] =
            [f \in DOMAIN coll[i] |->
                IF f \in DOMAIN update_data THEN update_data[f] ELSE coll[i][f]]]
    ELSE SelectSeq(coll, LAMBDA emp : emp.employee_id # coll[i].employee_id)
UpdateOneEmployee(coll, i, update_data) ==
    [coll EXCEPT ![i] =
        [f \in DOMAIN coll[i] |->
            IF f \in DOMAIN update_data THEN update_data[f] ELSE coll[i][f]]]

\* edit_employee: department and the Active checkbox of the chosen employee
EditEmployee(s) ==
    /\ s \in Admins
    /\ pc[s] = "idle"
    /\ \E i \in Indices(employees), department \in Departments, is_active \in BOOLEAN :
        employees' = UpdateOneEmployee(employees, i,
            [department |-> department, is_active |-> is_active])
    /\ result' = "employee_updated"
    /\ UNCHANGED << attendance, attendance_requests, edit_logs, now,
                    submitted, pc, loc, attendance_images, overview_data, report,
                    pageVars >>

\* ------------------------------------------------------------------------
\* admin.py dashboard_overview
\* ------------------------------------------------------------------------
\* f"{(present_today/total_employees*100):.1f}%", as a number of tenths of a
\* percent; a tie goes to the even neighbour
RateTenths(present_today, total_employees) ==
    LET n == present_today * 1000
        q == n \div total_employees
        r == n % total_employees
    IN IF 2 * r < total_employees THEN q
       ELSE IF 2 * r > total_employees THEN q + 1
       ELSE IF q % 2 = 0 THEN q ELSE q + 1

\* count_documents({"date": {"$gte": today_start, "$lte": today_end},
\* "status": "present"}) on db.attendance
PresentToday ==
    Cardinality({ i \in AttendanceOnDate(Today) : attendance[i].status = "present" })

\* total_employees = db.employees.count_documents({})
DashboardCountEmployees(s) ==
    /\ s \in Admins
    /\ pc[s] = "idle"
    /\ pc' = [pc EXCEPT ![s] = "dash_today"]
    /\ loc' = [loc EXCEPT ![s] = [Idle EXCEPT !.count = Len(employees)]]
    /\ result' = "none"
    /\ UNCHANGED << reportVars, employees, attendance, attendance_requests, edit_logs, now, submitted >>

\* today_attendance = db.attendance.count_documents({"date": ...});
\* loc.todo holds the metrics read after the first
DashboardCountToday(s) ==
    /\ s \in Admins
    /\ pc[s] = "dash_today"
    /\ pc' = [pc EXCEPT ![s] = "dash_pending"]
    /\ loc' = [loc EXCEPT ![s].todo = << Cardinality(AttendanceOnDate(Today)) >>]
    /\ result' = "none"
    /\ UNCHANGED << reportVars, employees, attendance, attendance_requests, edit_logs, now, submitted >>

\* pending_requests = db.attendance_requests.count_documents({"status": "pending"})
DashboardCountPending(s) ==
    /\ s \in Admins
    /\ pc[s] = "dash_pending"
    /\ pc' = [pc EXCEPT ![s] = "dash_rate"]
    /\ loc' = [loc EXCEPT ![s].todo = Append(@, Cardinality(PendingRequests))]
    /\ result' = "none"
    /\ UNCHANGED << reportVars, employees, attendance, attendance_requests, edit_logs, now, submitted >>

\* present_today and the attendance rate; the four metrics are on display
DashboardRate(s) ==
    /\ s \in Admins
    /\ pc[s] = "dash_rate"
    /\ LET total_employees == loc[s].count
           present_today == PresentToday
       IN report' = [page |-> "dashboard",
                     total_employees |-> total_employees,
                     today_attendance |-> loc[s].todo[1],
                     pending_requests |-> loc[s].todo[2],
                     present_today |-> present_today,
                     attendance_rate |->
                         IF total_employees > 0
                         THEN RateTenths(present_today, total_employees)
                         ELSE 0]
    /\ pc' = [pc EXCEPT ![s] = "idle"]
    /\ loc' = [loc EXCEPT ![s] = Idle]
    /\ result' = "none"
    /\ UNCHANGED << employees, attendance, attendance_requests, edit_logs, now,
                    submitted, attendance_images, overview_data, pageVars >>

\* ------------------------------------------------------------------------
\* utils.py generate_employee_id and admin.py add_employee
\* ------------------------------------------------------------------------
Usernames == {"user1", "user2", "user3"}

\* db.employees.find().sort("employee_id", -1).limit(1): the index of the
\* document whose identifier comes last in the order of the sort
LastEmployee ==
    CHOOSE i \in Indices(employees) :
        \A j \in Indices(employees) :
            ~IdLess(employees[i].employee_id, employees[j].employee_id)

generate_employee_id ==
    IF employees # <<>>
    THEN FormatId(EmployeeNumber(employees[LastEmployee].employee_id) + 1)
    ELSE "EMP0001"

\* the form's checks and db.employees.find_one({"username": username})
AddEmployeeCheck(s) ==
    /\ s \in Admins
    /\ pc[s] = "idle"
    /\ \E username \in Usernames, department \in Departments,
          filled \in BOOLEAN, passwords_match \in BOOLEAN :
        IF ~filled
        THEN /\ result' = "fields_required"
             /\ UNCHANGED << pc, loc >>
        ELSE IF ~passwords_match
        THEN /\ result' = "password_mismatch"
             /\ UNCHANGED << pc, loc >>
        ELSE IF \E i \in Indices(employees) : employees[i].username = username
        THEN /\ result' = "username_exists"
             /\ UNCHANGED << pc, loc >>
        ELSE /\ WriteAhead
             /\ pc' = [pc EXCEPT ![s] = "add_generate"]
             /\ loc' = [loc EXCEPT ![s] =
                    [Idle EXCEPT !.username = username, !.department = department]]
             /\ result' = "none"
    /\ UNCHANGED << reportVars, employees, attendance, attendance_requests, edit_logs, now, submitted >>

\* employee_id = generate_employee_id()
AddEmployeeGenerate(s) ==
    /\ s \in Admins
    /\ pc[s] = "add_generate"
    /\ loc' = [loc EXCEPT ![s].emp = generate_employee_id]
    /\ pc' = [pc EXCEPT ![s] = "add_insert"]
    /\ result' = "none"
    /\ UNCHANGED << reportVars, employees, attendance, attendance_requests, edit_logs, now, submitted >>

\* the unique indexes of db.employees on username and on employee_id
EmployeeIndexFree(coll, doc) ==
    \A i \in Indices(coll) :
        /\ coll[i].username # doc.username
        /\ coll[i].employee_id # doc.employee_id

\* db.employees.insert_one(employee_data)
AddEmployeeInsert(s) ==
    /\ s \in Admins
    /\ pc[s] = "add_insert"
    /\ LET employee_data == [employee_id |-> loc[s].emp,
                             username |-> loc[s].username,
                             department |-> loc[s].department,
                             is_active |-> TRUE]
       IN
       IF EmployeeIndexFree(employees, employee_data)
       THEN /\ now < MaxTime
            /\ employees' = Append(employees, employee_data)
            /\ now' = now + 1
            /\ result' = "employee_added"
       ELSE /\ result' = "add_error"       \* DuplicateKeyError
            /\ UNCHANGED << employees, now >>
    /\ pc' = [pc EXCEPT ![s] = "idle"]
    /\ loc' = [loc EXCEPT ![s] = Idle]
    /\ UNCHANGED << reportVars, attendance, attendance_requests, edit_logs, submitted >>

\* ------------------------------------------------------------------------
\* Specifications
\* ------------------------------------------------------------------------
\* one step of the script run of session s
Step(s) ==
    \/ MarkAttendanceRead(s)
    \/ MarkAttendanceSave(s)
    \/ MarkAttendanceReset(s)
    \/ EditAttendanceRead(s)
    \/ EditAttendanceUpdate(s)
    \/ EditAttendanceLog(s)
    \/ ResolveRead(s)
    \/ ResolveUpdate(s)
    \/ ResolveFind(s)
    \/ ResolveWrite(s)
    \/ SubmitReadRecord(s)
    \/ SubmitReadRequest(s)
    \/ SubmitInsert(s)

\* two admin sessions and one employee session at work
AdminRaceSessions == {"admin1", "admin2", "emp_s1"}
Next == \E s \in AdminRaceSessions : Step(s)
Spec == Init /\ [][Next]_vars

\* one admin session and two sessions of the same employee at work
SubmitRaceSessions == {"admin1", "emp_s1", "emp_s2"}
NextSubmit == \E s \in SubmitRaceSessions : Step(s)
SpecSubmit == Init /\ [][NextSubmit]_vars

\* two admin sessions on the TBT image page
NextTbt == \E s \in Admins : UploadTbtRead(s) \/ UploadTbtInsert(s)
SpecTbt == Init /\ [][NextTbt]_vars

\* The ledgers filled earlier: each of the employees has, on each of the
\* dates up to last_date, no record, a present or an absent record.
LedgerSlots(employee_ids, last_date) ==
    [ k \in 1 .. (Len(employee_ids) * last_date) |->
        [employee_id |-> employee_ids[((k - 1) \div last_date) + 1],
         date |-> ((k - 1) % last_date) + 1] ]
LedgerOf(slots, marks) ==
    LET chosen == SelectSeq([k \in DOMAIN slots |-> k], LAMBDA k : marks[k] # "none")
    IN [ j \in 1 .. Len(chosen) |->
           [employee_id |-> slots[chosen[j]].employee_id,
            date |-> Combine(slots[chosen[j]].date, MinTimeOfDay),
            status |-> marks[chosen[j]], marked_by |-> "admin2", created_at |-> 0,
            updated_at |-> 0, updated_by |-> "none", note |-> "none"] ]
Ledgers(employee_ids, last_date) ==
    LET slots == LedgerSlots(employee_ids, last_date) IN
    { LedgerOf(slots, marks) : marks \in [DOMAIN slots -> Status \cup {"none"}] }

\* the state after construction, on the ledger given
InitOn(ledgers) ==
    /\ employees = SeedEmployees
    /\ attendance \in ledgers
    /\ attendance_requests = <<>>
    /\ edit_logs = <<>>
    /\ now = 0
    /\ submitted = [s \in Admins |-> [d \in AllDates |-> FALSE]]
    /\ pc = [s \in Sessions |-> "idle"]
    /\ loc = [s \in Sessions |-> Idle]
    /\ result = "none"
    /\ attendance_images = <<>>
    /\ overview_data = [s \in EmpSessions |-> NoOverview]
    /\ report = NoReport
    /\ PagesInit(Dates)

ReportSessions == {"admin1", "emp_s1"}

\* the pages showing an employee's statistics, on a ledger of the active
\* employee
InitStats == InitOn(Ledgers(<< "EMP0001" >>, MaxReportDate))
NextStats ==
    \E s \in ReportSessions : ShowEmployeeAttendance(s) \/ EmployeeOverview(s)
SpecStats == InitStats /\ [][NextStats]_vars

\* the department rollup and the employee editor, on a ledger of both
\* employees
InitRollup == InitOn(Ledgers(EmployeeIdOrder, MaxRollupDate))
NextRollup ==
    \E s \in ReportSessions : EditEmployee(s) \/ DepartmentAnalytics(s)
SpecRollup == InitRollup /\ [][NextRollup]_vars

\* The sessions start on a database that was used before: the ledger is
\* empty or holds the absent record EMP0001 got on the date from admin2, and
\* the employee's request for the date is pending or was never submitted.
SeedLedgers ==
    { <<>>,
      << [employee_id |-> "EMP0001", date |-> Combine(1, MinTimeOfDay),
          status |-> "absent", marked_by |-> "admin2", created_at |-> 0,
          updated_at |-> 0, updated_by |-> "none", note |-> "none"] >> }
SeedRequests ==
    { <<>>,
      << [employee_id |-> "EMP0001", date |-> Combine(1, MinTimeOfDay),
          message |-> << "x" >>, status |-> "pending", created_at |-> 0,
          resolved_by |-> "none", updated_at |-> 0] >> }
InitSeeded ==
    /\ employees = SeedEmployees
    /\ attendance \in SeedLedgers
    /\ attendance_requests \in SeedRequests
    /\ edit_logs = <<>>
    /\ now = 0
    /\ submitted = [s \in Admins |-> [d \in AllDates |-> FALSE]]
    /\ pc = [s \in Sessions |-> "idle"]
    /\ loc = [s \in Sessions |-> Idle]
    /\ result = "none"
    /\ attendance_images = <<>>
    /\ overview_data = [s \in EmpSessions |-> NoOverview]
    /\ report = NoReport
    /\ PagesInit(Dates)
SeededSessions == {"admin1", "emp_s1"}
NextSeeded == \E s \in SeededSessions : Step(s)
SpecSeeded == InitSeeded /\ [][NextSeeded]_vars

\* The employee's overview and attendance list next to an admin who marks
\* and edits the employee's attendance
OverviewSessions == {"admin1", "emp_s1"}
NextOverview ==
    \E s \in OverviewSessions :
        \/ MarkAttendanceRead(s)
        \/ MarkAttendanceSave(s)
        \/ MarkAttendanceReset(s)
        \/ EditAttendanceRead(s)
        \/ EditAttendanceUpdate(s)
        \/ EditAttendanceLog(s)
        \/ EmployeeOverview(s)
        \/ ShowAttendanceList(s)
SpecOverview == Init /\ [][NextOverview]_vars

\* Two admins mark attendance while both employees are active
BothActive == [ i \in Indices(SeedEmployees) |->
                  [SeedEmployees[i] EXCEPT !.is_active = TRUE] ]
InitBatch ==
    /\ employees = BothActive
    /\ attendance = <<>>
    /\ attendance_requests = <<>>
    /\ edit_logs = <<>>
    /\ now = 0
    /\ submitted = [s \in Admins |-> [d \in AllDates |-> FALSE]]
    /\ pc = [s \in Sessions |-> "idle"]
    /\ loc = [s \in Sessions |-> Idle]
    /\ result = "none"
    /\ attendance_images = <<>>
    /\ overview_data = [s \in EmpSessions |-> NoOverview]
    /\ report = NoReport
    /\ PagesInit(Dates)
NextBatch ==
    \E s \in Admins :
        \/ MarkAttendanceRead(s)
        \/ MarkAttendanceSave(s)
        \/ MarkAttendanceReset(s)
SpecBatch == InitBatch /\ [][NextBatch]_vars

\* Two admins add and edit employees.  The database is new, or holds the
\* seed employees with the ledger and the request of the seeded sessions, or
\* is that of a company whose latest employee is EMP9998 (the employees
\* with lower numbers take no part in the generation of identifiers and are
\* left out).
HighEmployees ==
    << [employee_id |-> "EMP9998", username |-> "user1", department |-> "Ops",
        is_active |-> TRUE] >>
InitEmployees ==
    /\ \/ /\ employees = SeedEmployees
          /\ attendance \in SeedLedgers
          /\ attendance_requests \in SeedRequests
       \/ /\ employees \in { <<>>, HighEmployees }
          /\ attendance = <<>>
          /\ attendance_requests = <<>>
    /\ edit_logs = <<>>
    /\ now = 0
    /\ submitted = [s \in Admins |-> [d \in AllDates |-> FALSE]]
    /\ pc = [s \in Sessions |-> "idle"]
    /\ loc = [s \in Sessions |-> Idle]
    /\ result = "none"
    /\ attendance_images = <<>>
    /\ overview_data = [s \in EmpSessions |-> NoOverview]
    /\ report = NoReport
    /\ PagesInit(Dates)
NextEmployees ==
    \E s \in Admins :
        \/ AddEmployeeCheck(s)
        \/ AddEmployeeGenerate(s)
        \/ AddEmployeeInsert(s)
        \/ EditEmployee(s)
SpecEmployees == InitEmployees /\ [][NextEmployees]_vars

\* An admin on the delete page of an image store that holds two images for
\* each of two dates
SeedImages ==
    << [date |-> Combine(1, MinTimeOfDay), filename |-> "a.png",
        uploaded_by |-> "admin1", uploaded_at |-> 0],
       [date |-> Combine(1, MinTimeOfDay), filename |-> "c.png",
        uploaded_by |-> "admin1", uploaded_at |-> 0],
       [date |-> Combine(Today, MinTimeOfDay), filename |-> "a.png",
        uploaded_by |-> "admin2", uploaded_at |-> 0],
       [date |-> Combine(Today, MinTimeOfDay), filename |-> "c.png",
        uploaded_by |-> "admin2", uploaded_at |-> 0] >>
InitTbtDelete ==
    /\ employees = SeedEmployees
    /\ attendance = <<>>
    /\ attendance_requests = <<>>
    /\ edit_logs = <<>>
    /\ now = 0
    /\ submitted = [s \in Admins |-> [d \in AllDates |-> FALSE]]
    /\ pc = [s \in Sessions |-> "idle"]
    /\ loc = [s \in Sessions |-> Idle]
    /\ result = "none"
    /\ attendance_images = SeedImages
    /\ overview_data = [s \in EmpSessions |-> NoOverview]
    /\ report = NoReport
    /\ PagesInit({1, Today})
TbtDeleteSessions == {"admin1"}
NextTbtDelete ==
    \E s \in TbtDeleteSessions :
        \/ SelectDeleteDate(s)
        \/ BulkDeleteClick(s)
        \/ BulkDeleteMany(s)
        \/ IndividualDeleteClick(s)
        \/ IndividualDeleteOne(s)
SpecTbtDelete == InitTbtDelete /\ [][NextTbtDelete]_vars

\* One admin on the dashboard while the other adds employees and marks
\* today's attendance, in a company that has no employee or one employee yet
OneEmployee == << SeedEmployees[1] >>
InitDashboard ==
    /\ employees \in { <<>>, OneEmployee }
    /\ attendance = <<>>
    /\ attendance_requests = <<>>
    /\ edit_logs = <<>>
    /\ now = 0
    /\ submitted = [s \in Admins |-> [d \in AllDates |-> FALSE]]
    /\ pc = [s \in Sessions |-> "idle"]
    /\ loc = [s \in Sessions |-> Idle]
    /\ result = "none"
    /\ attendance_images = <<>>
    /\ overview_data = [s \in EmpSessions |-> NoOverview]
    /\ report = NoReport
    /\ PagesInit({Today})
DashboardViewers == {"admin1"}
DashboardStaff == {"admin2"}
NextDashboard ==
    \/ \E s \in DashboardViewers :
        \/ DashboardCountEmployees(s)
        \/ DashboardCountToday(s)
        \/ DashboardCountPending(s)
        \/ DashboardRate(s)
    \/ \E s \in DashboardStaff :
        \/ AddEmployeeCheck(s)
        \/ AddEmployeeGenerate(s)
        \/ AddEmployeeInsert(s)
        \/ MarkAttendanceRead(s)
        \/ MarkAttendanceSave(s)
        \/ MarkAttendanceReset(s)
SpecDashboard == InitDashboard /\ [][NextDashboard]_vars

\* An admin and the employee at work with date inputs that hold a past
\* date, today and tomorrow
DateSessions == {"admin1", "emp_s1"}
InitDates ==
    /\ employees = SeedEmployees
    /\ attendance = <<>>
    /\ attendance_requests = <<>>
    /\ edit_logs = <<>>
    /\ now = 0
    /\ submitted = [s \in Admins |-> [d \in AllDates |-> FALSE]]
    /\ pc = [s \in Sessions |-> "idle"]
    /\ loc = [s \in Sessions |-> Idle]
    /\ result = "none"
    /\ attendance_images = <<>>
    /\ overview_data = [s \in EmpSessions |-> NoOverview]
    /\ report = NoReport
    /\ PagesInit(AllDates)
NextDates == \E s \in DateSessions : Step(s)
SpecDates == InitDates /\ [][NextDates]_vars

\* ------------------------------------------------------------------------
\* Properties
\* ------------------------------------------------------------------------
\* the attendance documents of employee e on calendar date d
RecordsOf(coll, e, d) ==
    { i \in Indices(coll) : coll[i].employee_id = e /\ DateOf(coll[i].date) = d }

EmployeeIds == { employees[i].employee_id : i \in Indices(employees) }

\* C1: in every reachable state the attendance collection holds at most one
\* record per (employee_id, calendar date), whatever the interleaving of the
\* mark_attendance saves and the request approvals of the admin sessions.
C1_OneRecordPerEmployeeDate ==
    \A i, j \in Indices(attendance) :
        (/\ attendance[i].employee_id = attendance[j].employee_id
         /\ DateOf(attendance[i].date) = DateOf(attendance[j].date)) => i = j

\* C1 witness: the record of (EMP0001, 1) was inserted by the approval of one
\* admin, and the save of the other admin, who had read the date before the
\* record existed, was refused by the unique index.
C1_Witness ==
    /\ Len(attendance) = 1
    /\ attendance[1].note = "Approved from employee request"
    /\ attendance[1].marked_by = "admin1"
    /\ attendance[1].updated_at = 0
    /\ result = "save_error"
    /\ submitted["admin2"][1]

\* C2 (as claimed): a save of mark_attendance for an (employee, date) that
\* already has a record fails for that item and leaves the stored record
\* as it was.
C2_MarkNeverTouchesExisting ==
    [][ \A s \in Admins :
          ( /\ MarkAttendanceSave(s)
            /\ RecordsOf(attendance, Head(loc[s].todo).emp, loc[s].date) # {} )
          => ( /\ attendance' = attendance
               /\ result' = "save_error" ) ]_vars

\* C3 (as claimed): at most one request with status pending or approved
\* exists per (employee, date).
C3_OneActiveRequest ==
    \A e \in EmployeeIds, d \in Dates :
        Cardinality(ActiveRequests(attendance_requests, e, d)) <= 1

\* C4 (as claimed): once a request is approved or rejected, no step changes
\* its status or its resolver fields.
C4_ResolvedIsFinal ==
    [][ \A r \in Indices(attendance_requests) :
          attendance_requests[r].status # "pending"
          => ( /\ attendance_requests'[r].status = attendance_requests[r].status
               /\ attendance_requests'[r].resolved_by = attendance_requests[r].resolved_by
               /\ attendance_requests'[r].updated_at = attendance_requests[r].updated_at )
      ]_vars

\* C5 (as claimed): when the last step of an approval is done, a record of
\* the request's (employee, date) exists with status present.
C5_ApprovalLeavesPresent ==
    [][ \A s \in Admins :
          ResolveWrite(s)
          => \E i \in RecordsOf(attendance', loc[s].emp, loc[s].date) :
                attendance'[i].status = "present" ]_vars

\* the steps of handle_request_action
ResolveStep(s) == ResolveUpdate(s) \/ ResolveFind(s) \/ ResolveWrite(s)

\* C6: no step of the handling of a Reject click changes the attendance
\* collection: no record is created, modified or removed.
C6_RejectLeavesLedger ==
    [][ \A s \in Admins :
          ( /\ pc[s] \in {"resolve_update", "resolve_find", "resolve_write"}
            /\ loc[s].status = "rejected"
            /\ ResolveStep(s) )
          => ( /\ attendance' = attendance
               /\ pc'[s] = "idle" ) ]_vars

\* C6 witness: a request has been rejected (and nothing else was written).
C6_Witness ==
    /\ \E r \in Indices(attendance_requests) :
          attendance_requests[r].status = "rejected"
    /\ result = "resolved"
    /\ attendance = <<>>

\* C7 (as claimed): every step that changes the status of a stored record
\* is the update of an edit_attendance or the ledger write of an approval.
C7_StatusChangesOnlyByEditOrApproval ==
    [][ \A i \in Indices(attendance) :
          attendance'[i].status # attendance[i].status
          => \E s \in Admins : EditAttendanceUpdate(s) \/ ResolveWrite(s) ]_vars

\* a reason with a character that is not whitespace
NonBlank(str) == \E k \in 1 .. Len(str) : str[k] # Space

\* C8: an edit submitted with an empty or whitespace-only reason never gets
\* to its writes: every edit run that is past its checks, and every entry of
\* the edit log, carries a reason with a non-whitespace character.
C8_BlankReasonNeverEdits ==
    /\ \A s \in Admins :
          pc[s] \in {"edit_update", "edit_log"} => NonBlank(loc[s].reason)
    /\ \A k \in Indices(edit_logs) : NonBlank(edit_logs[k].reason)

\* C8 witness: an edit of an existing record was just refused for its reason,
\* record and edit log being as they were.
C8_Witness ==
    /\ result = "reason_required"
    /\ Len(attendance) = 1
    /\ attendance[1].updated_at = 0
    /\ edit_logs = <<>>

\* the entries a step appends to the edit log
NewLogEntries == { edit_logs'[k] : k \in (Len(edit_logs) + 1) .. Len(edit_logs') }

\* the step of session s is the read-and-check step of an edit
EditReadStep(s) ==
    /\ pc[s] = "idle"
    /\ pc'[s] = "edit_update" \/ result' \in {"not_found", "reason_required", "no_change"}
    /\ EditAttendanceRead(s)

\* the step of session s is one of the two writes of an edit
EditWriteStep(s) ==
    /\ pc[s] \in {"edit_update", "edit_log"}
    /\ EditAttendanceUpdate(s) \/ EditAttendanceLog(s)

\* C9: an edit whose new status equals the status of the record it read ends
\* without any write: the step that reads and checks writes nothing, a run
\* goes on to its update only with a new status that differs from the stored
\* one, and every entry appended to the edit log has old_status # new_status.
C9_NoOpEditWritesNothing ==
    [][ /\ \A s \in Admins :
            \/ ( /\ attendance' = attendance
                 /\ edit_logs' = edit_logs
                 /\ pc'[s] = "edit_update"
                    => \A i \in RecordsOf(attendance, loc'[s].emp, loc'[s].date) :
                          attendance[i].status # loc'[s].status )
            \/ ~EditReadStep(s)
        /\ \A entry \in NewLogEntries : entry.old_status # entry.new_status ]_vars

\* C9 witness: an edit with the status the record already has was just
\* answered with "No changes made", the record never having been updated.
C9_Witness ==
    /\ result = "no_change"
    /\ Len(attendance) = 1
    /\ attendance[1].updated_at = 0
    /\ edit_logs = <<>>

\* C10: an edit for an (employee, date) without attendance record is answered
\* with not-found and ends: only a run that found a record goes on to its
\* writes, an edit never adds a record, and every entry appended to the edit
\* log is about a stored record.
C10_EditOfMissingRecord ==
    [][ /\ \A s \in Admins :
            /\ ( attendance = <<>> /\ EditReadStep(s) )
               => ( result' = "not_found" /\ pc'[s] = "idle" /\ attendance' = <<>>
                    /\ edit_logs' = edit_logs )
            /\ ( pc'[s] = "edit_update" /\ EditReadStep(s) )
               => RecordsOf(attendance, loc'[s].emp, loc'[s].date) # {}
            /\ EditWriteStep(s)
               => Len(attendance') = Len(attendance)
        /\ \A entry \in NewLogEntries :
            RecordsOf(attendance', entry.employee_id, DateOf(entry.date)) # {} ]_vars

\* C10 witness: an edit was just answered with not-found, and there is
\* neither a record nor an entry of the edit log.
C10_Witness ==
    /\ result = "not_found"
    /\ attendance = <<>>
    /\ edit_logs = <<>>

\* C11 (as claimed): the update of an edit sets the record to the new status
\* with updated-by/at, and the one entry the edit appends has as old_status
\* the status the record had immediately before that update and as
\* new_status its status immediately after, the two being different.
C11_EditLogsTheTransition ==
    [][ \A s \in Admins :
          /\ ( pc[s] = "edit_update" /\ EditAttendanceUpdate(s) )
             => \A i \in RecordsOf(attendance, loc[s].emp, loc[s].date) :
                   /\ attendance[i].status = loc[s].cur
                   /\ attendance'[i].status = loc[s].status
                   /\ attendance'[i].updated_by = s
                   /\ attendance'[i].updated_at = now'
          /\ ( pc[s] = "edit_log" /\ EditAttendanceLog(s) )
             => /\ Len(edit_logs') = Len(edit_logs) + 1
                /\ edit_logs'[Len(edit_logs')].old_status = loc[s].cur
                /\ edit_logs'[Len(edit_logs')].new_status = loc[s].status
                /\ loc[s].cur # loc[s].status ]_vars

\* C12 (as claimed): for every date the employees offered for marking are
\* exactly the active employees without attendance record for that date, in
\* ascending order of employee identifier.
C12_OfferedAreUnmarked ==
    \A d \in Dates :
        LET offered == OfferedEmployees(d) IN
        /\ { offered[k].employee_id : k \in 1 .. Len(offered) }
           = { emp.employee_id :
                 emp \in { e \in SeqRange(employees) :
                             e.is_active /\ RecordsOf(attendance, e.employee_id, d) = {} } }
        /\ \A j, k \in 1 .. Len(offered) :
              j < k => EmployeeNumber(offered[j].employee_id)
                         < EmployeeNumber(offered[k].employee_id)

\* the requests a step inserts
NewRequests ==
    { attendance_requests'[r] :
        r \in (Len(attendance_requests) + 1) .. Len(attendance_requests') }

\* C13 (as claimed): at the moment a request for (E, D) is inserted, the
\* attendance record of (E, D) does not have status present.
C13_NoRequestWhilePresent ==
    [][ \A req \in NewRequests :
          \A i \in RecordsOf(attendance, req.employee_id, DateOf(req.date)) :
              attendance[i].status # "present" ]_vars

\* C14: a request is inserted only for a justification that has a character
\* other than whitespace, every inserted request is pending and without
\* resolver fields, and the submission of a blank justification ends with
\* the request collection as it was.
C14_OnlyJustifiedPendingRequests ==
    [][ /\ \A req \in NewRequests :
              /\ NonBlank(req.message)
              /\ req.status = "pending"
              /\ req.resolved_by = "none"
              /\ req.updated_at = 0
        /\ \A s \in EmpSessions :
              /\ ( pc[s] = "submit_insert" /\ SubmitInsert(s) )
                 => NonBlank(loc[s].reason)
              /\ ( pc[s] = "submit_check" /\ ~NonBlank(loc[s].reason)
                   /\ SubmitReadRequest(s) )
                 => ( /\ attendance_requests' = attendance_requests
                      /\ pc'[s] = "idle"
                      /\ result' = "justification_required" ) ]_vars

\* C14 witness: after one request was inserted, a submission with a blank
\* justification was just refused.
C14_Witness ==
    /\ result = "justification_required"
    /\ Len(attendance_requests) = 1
    /\ attendance_requests[1].status = "pending"
    /\ attendance_requests[1].created_at > 0

\* C15 (as claimed): when the ledger write of an approval reports a failure,
\* the request is as before the approval: pending, without resolver fields.
C15_FailureLeavesStateUnchanged ==
    [][ \A s \in Admins :
          ( pc[s] = "resolve_write" /\ ResolveWrite(s) /\ result' = "resolve_error" )
          => ( /\ attendance_requests'[loc[s].req].status = "pending"
               /\ attendance_requests'[loc[s].req].resolved_by = "none"
               /\ attendance_requests'[loc[s].req].updated_at = 0 ) ]_vars

\* C16: the edit log only grows at its end and by the entries of the edits:
\* every step keeps the entries there are, the log write of an edit adds
\* exactly one entry and reports the edit done, and no other step (mark,
\* submit, reject, approve with insert or with overwrite) adds any.
C16_EditLogAppendOnly ==
    [][ /\ Len(edit_logs') >= Len(edit_logs)
        /\ SubSeq(edit_logs', 1, Len(edit_logs)) = edit_logs
        /\ \A s \in Admins :
              ( pc[s] = "edit_log" /\ EditAttendanceLog(s) )
              => ( Len(edit_logs') = Len(edit_logs) + 1 /\ result' = "updated" )
        /\ edit_logs' # edit_logs
           => \E s \in Admins : pc[s] = "edit_log" /\ EditAttendanceLog(s) ]_vars

\* C16 witness: the record that was absent is present by an approval and
\* absent again by an edit; the edit log has the one entry of the edit.
C16_Witness ==
    /\ Len(edit_logs) = 1
    /\ edit_logs[1].old_status = "present"
    /\ Len(attendance) = 1
    /\ attendance[1].created_at = 0
    /\ attendance[1].status = "absent"
    /\ \E r \in Indices(attendance_requests) :
          attendance_requests[r].status = "approved"
    /\ result = "updated"

C17_AtMostTwoImagesPerDate ==
    \A d \in Dates : Cardinality(ImagesOnDate(d)) <= MaxImagesPerDay

\* the figures are consistent with each other and with the list they are of
StatsConsistent(stats, attendance_data) ==
    /\ stats.total_days = stats.present_days + stats.absent_days
    /\ stats.present_days >= 0
    /\ stats.absent_days >= 0
    /\ stats.attendance_percentage >= 0
    /\ stats.attendance_percentage <= 100 * 100
    /\ attendance_data = <<>>
       => ( stats.total_days = 0 /\ stats.attendance_percentage = 0 )

\* C19: the figures calculate_attendance_stats returns for the list of a
\* page have total_days = present_days + absent_days, no negative count and
\* a percentage from 0 to 100 (counted in hundredths), which is 0 for the
\* empty list.
C19_StatsWithinRange ==
    [][ /\ \A s \in EmpSessions :
              ( report'.page = "overview" /\ EmployeeOverview(s) )
              => StatsConsistent(report'.stats, overview_data'[s].monthly_records)
        /\ \A s \in Admins :
              ( report'.page = "employee" /\ ShowEmployeeAttendance(s) )
              => StatsConsistent(report'.stats,
                    EmployeeRecordsInRange(report'.employee_id,
                                           report'.start_date, report'.end_date)) ]_vars

\* C19 witness: the overview of an employee without any record shows 0 days
\* and 0 percent.
C19_Witness ==
    /\ report.page = "overview"
    /\ attendance = <<>>
    /\ overview_data["emp_s1"].cached
    /\ report.stats.total_days = 0
    /\ report.stats.attendance_percentage = 0

\* the bucket the claim gives a record: "Unknown" when its employee is
\* missing or deactivated, the employee's department otherwise
ClaimedBucket(record) ==
    LET employee == EmployeeOf(record.employee_id) IN
    IF employee = 0 THEN "Unknown"
    ELSE IF ~employees[employee].is_active THEN "Unknown"
    ELSE DepartmentOf(employees[employee])

RECURSIVE SumTotals(_, _)
SumTotals(rows, depts) ==
    IF depts = {} THEN 0
    ELSE LET d == CHOOSE x \in depts : TRUE
         IN rows[d].total + SumTotals(rows, depts \ {d})

\* C20 (as claimed): the totals of the rollup's buckets sum to the number of
\* records in the range, and every record is counted in one bucket, the one
\* of its employee's department or, the employee being missing or
\* deactivated, "Unknown".
C20_RollupCountsEveryRecord ==
    [][ \A s \in Admins :
          ( report'.page = "department" /\ DepartmentAnalytics(s) )
          => LET rows == report'.rows
                 records == RecordsInRange(report'.start_date, report'.end_date)
             IN /\ SumTotals(rows, DOMAIN rows) = Len(records)
                /\ DOMAIN rows = { ClaimedBucket(records[k]) : k \in 1 .. Len(records) }
                /\ \A d \in DOMAIN rows :
                      rows[d].total
                      = Cardinality({ k \in 1 .. Len(records) :
                                        ClaimedBucket(records[k]) = d }) ]_vars

\* C21 (as claimed): the statistics an employee's overview or attendance
\* list displays are those of the employee's records as they are in the
\* ledger when the page is displayed, never those of records cached in the
\* session before a mark or an edit changed the ledger.
C21_StatsFromCurrentLedger ==
    [][ \A s \in EmpSessions :
          /\ EmployeeOverview(s)
             => report'.stats
                = calculate_attendance_stats(
                      EmployeeRecordsInRange(SessionEmployee(s), 1, Today))
          /\ ShowAttendanceList(s)
             => LET attendance_records ==
                        EmployeeRecordsInRange(SessionEmployee(s),
                            report'.start_date, report'.end_date)
                IN IF attendance_records = <<>>
                   THEN report'.page = "attendance_list_empty"
                   ELSE /\ report'.page = "attendance_list"
                        /\ report'.stats
                           = calculate_attendance_stats(attendance_records) ]_vars

\* C22: when the write for one employee of a batch fails, the failure is
\* reported for that employee, no record is changed by the failed iteration,
\* the loop goes on to the employees left in the batch, and every iteration
\* that does not fail leaves the employee's record with the status chosen,
\* without touching the records of the other employees.
C22_BatchSurvivesFailedItem ==
    [][ \A s \in Admins :
          ( pc[s] = "mark_save" /\ MarkAttendanceSave(s) )
          => LET item == Head(loc[s].todo)
                 d == loc[s].date
             IN
             /\ \A i \in Indices(attendance) :
                    attendance[i].employee_id # item.emp
                    => attendance'[i] = attendance[i]
             /\ IF result' = "save_error"
                THEN /\ attendance' = attendance
                     /\ Len(loc[s].todo) > 1
                        => /\ pc'[s] = "mark_save"
                           /\ loc'[s].todo = Tail(loc[s].todo)
                ELSE \E i \in MatchAttendance(attendance', item.emp, d) :
                        /\ attendance'[i].status = item.status
                        /\ attendance'[i].marked_by = s ]_vars

\* admin1's batch of both employees met the record admin2 had inserted for
\* EMP0001 in the meantime: the failure is reported and EMP0002 is next
C22_Witness ==
    /\ result = "save_error"
    /\ pc["admin1"] = "mark_save"
    /\ loc["admin1"].todo # <<>>
    /\ Head(loc["admin1"].todo).emp = "EMP0002"
    /\ \E i \in Indices(attendance) :
          attendance[i].employee_id = "EMP0001" /\ attendance[i].marked_by = "admin2"
    /\ \A i \in Indices(attendance) : attendance[i].employee_id # "EMP0002"

\* C23: a request has a resolver and a resolution time exactly when its
\* status is approved or rejected, and whenever a step sets a request's
\* status the resolver written with it is the admin session taking the step.
C23_ResolverMetadata ==
    [][ \A r \in Indices(attendance_requests') :
          LET request == attendance_requests'[r] IN
          /\ request.resolved_by # "none"
             <=> request.status \in {"approved", "rejected"}
          /\ request.updated_at # 0
             <=> request.status \in {"approved", "rejected"}
          /\ ( /\ r \in Indices(attendance_requests)
               /\ attendance_requests[r] # request )
             => \E s \in Admins :
                   /\ pc[s] = "resolve_update"
                   /\ pc'[s] # "resolve_update"
                   /\ request.status = loc[s].status
                   /\ request.resolved_by = s ]_vars

\* admin2 rejected a request
C23_Witness ==
    \E r \in Indices(attendance_requests) :
        /\ attendance_requests[r].status = "rejected"
        /\ attendance_requests[r].resolved_by = "admin2"
        /\ attendance_requests[r].updated_at > 0

\* the largest number among the identifiers of the employees, 0 when there
\* are none
LargestEmployeeNumber ==
    IF employees = <<>> THEN 0
    ELSE LET numbers == { EmployeeNumber(employees[i].employee_id) :
                            i \in Indices(employees) }
         IN CHOOSE n \in numbers : \A m \in numbers : m <= n

\* C24 (as claimed): the identifier add_employee generates is "EMP" followed
\* by the number one greater than the largest number among the identifiers
\* of the employees, padded to four digits, it is the identifier of no
\* employee, and no two employees ever share an identifier.
C24_NextIdentifierFollowsLargest ==
    [][ /\ \A s \in Admins :
             ( pc[s] = "add_generate" /\ AddEmployeeGenerate(s) )
             => /\ Digits(loc'[s].emp)
                   = ZeroPad(ToDigits(LargestEmployeeNumber + 1), IdWidth)
                /\ \A i \in Indices(employees) :
                      employees[i].employee_id # loc'[s].emp
        /\ \A i, j \in Indices(employees') :
             employees'[i].employee_id = employees'[j].employee_id => i = j ]_vars

\* C25: no step removes an employee or changes an employee's identifier, and
\* an edit of an employee, a deactivation included, leaves the attendance
\* records and the requests as they are.
C25_EmployeesOnlyGrow ==
    [][ /\ Len(employees') >= Len(employees)
        /\ \A i \in Indices(employees) :
              employees'[i].employee_id = employees[i].employee_id
        /\ employees' # employees /\ Len(employees') = Len(employees)
           => /\ attendance' = attendance
              /\ attendance_requests' = attendance_requests
              /\ \E i \in Indices(employees) :
                    \A j \in Indices(employees) \ {i} : employees'[j] = employees[j] ]_vars

\* EMP0001 was deactivated; its record and its request are still there
C25_Witness ==
    /\ result = "employee_updated"
    /\ \E i \in Indices(employees) :
          employees[i].employee_id = "EMP0001" /\ ~employees[i].is_active
    /\ \E i \in Indices(attendance) : attendance[i].employee_id = "EMP0001"
    /\ \E r \in Indices(attendance_requests) :
          attendance_requests[r].employee_id = "EMP0001"

\* C26 (as claimed): an iteration of mark_attendance's save loop changes no
\* record whose status is present when the iteration writes.
C26_SaveLeavesPresentRecords ==
    [][ \A s \in Admins :
          ( pc[s] = "mark_save" /\ MarkAttendanceSave(s) )
          => \A i \in Indices(attendance) :
                attendance[i].status = "present"
                => attendance'[i] = attendance[i] ]_vars

\* C27 (as claimed): a bulk delete of a date's images is executed only when
\* the session's latest confirmation was asked for on that date and no bulk
\* delete was executed since.
C27_BulkDeleteConfirmedForDate ==
    [][ \A s \in Admins :
          ( pc[s] = "tbt_delete_many" /\ BulkDeleteMany(s) )
          => tbt_delete[s].confirmed_for = loc[s].date ]_vars

\* a request of employee e for calendar date d has the status given
RequestWithStatus(reqs, e, d, status) ==
    \E r \in Indices(reqs) :
        /\ reqs[r].employee_id = e
        /\ DateOf(reqs[r].date) = d
        /\ reqs[r].status = status

\* C28 (as claimed): once a request for (employee, date) is approved there
\* is an approved request for the pair ever after, a submission checked
\* while there is one is refused whatever the attendance record says, and a
\* justified submission checked while the pair has neither a pending nor an
\* approved request and no present record goes on to its insert.
C28_ApprovedBlocksResubmission ==
    [][ \A e \in EmployeeIds, d \in AllDates :
          /\ RequestWithStatus(attendance_requests, e, d, "approved")
             => RequestWithStatus(attendance_requests', e, d, "approved")
          /\ \A s \in EmpSessions :
                ( /\ pc[s] = "submit_check"
                  /\ loc[s].emp = e
                  /\ loc[s].date = d
                  /\ SubmitReadRequest(s) )
                => /\ RequestWithStatus(attendance_requests, e, d, "approved")
                      => pc'[s] = "idle" /\ result' # "none"
                   /\ ( /\ ~RequestWithStatus(attendance_requests, e, d, "approved")
                        /\ ~RequestWithStatus(attendance_requests, e, d, "pending")
                        /\ loc[s].cur # "present"
                        /\ NonBlank(loc[s].reason) )
                      => pc'[s] = "submit_insert" ]_vars

\* C29 (as claimed): today's present records never outnumber the employees,
\* and the rate a dashboard displays is that of a present count no larger
\* than its employee count, hence between 0 and 100 percent, and 0 when
\* there is no employee.
C29_DashboardRateWithinRange ==
    [][ /\ PresentToday' <= Len(employees')
        /\ \A s \in Admins :
              ( pc[s] = "dash_rate" /\ DashboardRate(s) )
              => /\ report'.present_today <= report'.total_employees
                 /\ report'.attendance_rate >= 0
                 /\ report'.attendance_rate <= 1000
                 /\ report'.total_employees = 0 => report'.attendance_rate = 0 ]_vars

\* C30: every attendance record is for a calendar date no later than today,
\* the day the sessions run on, and every request is for a date before
\* today, although the date inputs also hold today and tomorrow.
C30_NoRecordForFutureDate ==
    /\ \A i \in Indices(attendance) : DateOf(attendance[i].date) <= Today
    /\ \A r \in Indices(attendance_requests) :
          DateOf(attendance_requests[r].date) < Today

\* the admin has marked today's attendance and was then refused tomorrow's
C30_Witness ==
    /\ result = "future_date"
    /\ \E i \in Indices(attendance) : DateOf(attendance[i].date) = Today
    /\ \A i \in Indices(attendance) : DateOf(attendance[i].date) <= Today

====
